---- MODULE Spec2Model ----
(***************************************************************************)
(* Routed three-LAN network of layer3_network_code.py: the Router node     *)
(* class (config / terminate), the topology RoutedThreeLanTopo.build       *)
(* declares, and run(), the script that constructs the network, addresses  *)
(* the router interfaces, installs the static and default routes, runs the *)
(* CLI and stops the network.                                              *)
(*                                                                         *)
(* Addresses are kept as the four octets the source writes and converted   *)
(* to 32-bit numbers by IpToInt; a dotted netmask is converted to a prefix *)
(* length by MaskToPrefix.  The effect of a shell command on a node is the *)
(* effect the command has on the node's interface and routing tables.      *)
(***************************************************************************)
EXTENDS Integers, Sequences, FiniteSets, TLC

VARIABLES
    pc,      \* position of run(): "new","config","built","configure","hosts","cli","stopping",
             \* "done","aborted"; "harness" when the Router class is exercised on its own
    ci,      \* index of the next command of lines 170-195 to issue
    todo,    \* members of net.hosts the loop under way has not visited yet
    addr,    \* interface name -> [ip, plen]; plen = -1 while no address is assigned
    routes,  \* node -> set of installed routes [net, plen, gw, dev]
    fwd,     \* router -> 0/1, net.ipv4.ip_forward of the router
    shell,   \* node -> TRUE while the node's shell process exists
    log,     \* node -> the commands issued on the node, in order
    pkt,     \* the packet in flight during the CLI, or NoPkt
    last,    \* the last call made on a Router object: [op, node, raised]
    calls    \* number of calls made on Router objects outside run()

vars == <<pc, ci, todo, addr, routes, fwd, shell, log, pkt, last, calls>>

-----------------------------------------------------------------------------
(* Topology: RoutedThreeLanTopo.build *)

Routers  == {"rA", "rB", "rC"}
Switches == {"s1", "s2", "s3"}
Hosts    == {"hA1", "hA2", "hB1", "hB2", "hC1", "hC2"}

\* Nodes that are not switches: Mininet keeps all of them in net.hosts.
NetHosts == Hosts \cup Routers

\* The characters of a node name (str.startswith works on them).
Chars(name) ==
    CASE name = "rA"  -> <<"r", "A">>
      [] name = "rB"  -> <<"r", "B">>
      [] name = "rC"  -> <<"r", "C">>
      [] name = "hA1" -> <<"h", "A", "1">>
      [] name = "hA2" -> <<"h", "A", "2">>
      [] name = "hB1" -> <<"h", "B", "1">>
      [] name = "hB2" -> <<"h", "B", "2">>
      [] name = "hC1" -> <<"h", "C", "1">>
      [] name = "hC2" -> <<"h", "C", "2">>
      [] name = "s1"  -> <<"s", "1">>
      [] name = "s2"  -> <<"s", "2">>
      [] name = "s3"  -> <<"s", "3">>

\* ip= parameter of addHost, as octets and prefix length.
HostIp(h) ==
    CASE h = "hA1" -> [ip |-> <<20, 10, 172, 130>>, plen |-> 26]
      [] h = "hA2" -> [ip |-> <<20, 10, 172, 131>>, plen |-> 26]
      [] h = "hB1" -> [ip |-> <<20, 10, 172, 2>>,   plen |-> 25]
      [] h = "hB2" -> [ip |-> <<20, 10, 172, 3>>,   plen |-> 25]
      [] h = "hC1" -> [ip |-> <<20, 10, 172, 194>>, plen |-> 27]
      [] h = "hC2" -> [ip |-> <<20, 10, 172, 195>>, plen |-> 27]

\* The addLink calls in declaration order; "" where no interface name is given.
LinkDecls ==
    << [n1 |-> "hA1", n2 |-> "s1", name1 |-> "", name2 |-> ""],
       [n1 |-> "hA2", n2 |-> "s1", name1 |-> "", name2 |-> ""],
       [n1 |-> "s1",  n2 |-> "rA", name1 |-> "", name2 |-> "rA-eth1"],
       [n1 |-> "hB1", n2 |-> "s2", name1 |-> "", name2 |-> ""],
       [n1 |-> "hB2", n2 |-> "s2", name1 |-> "", name2 |-> ""],
       [n1 |-> "s2",  n2 |-> "rB", name1 |-> "", name2 |-> "rB-eth1"],
       [n1 |-> "hC1", n2 |-> "s3", name1 |-> "", name2 |-> ""],
       [n1 |-> "hC2", n2 |-> "s3", name1 |-> "", name2 |-> ""],
       [n1 |-> "s3",  n2 |-> "rC", name1 |-> "", name2 |-> "rC-eth1"],
       [n1 |-> "rA",  n2 |-> "rB", name1 |-> "rA-eth2", name2 |-> "rB-eth2"],
       [n1 |-> "rB",  n2 |-> "rC", name1 |-> "rB-eth3", name2 |-> "rC-eth2"],
       [n1 |-> "rC",  n2 |-> "rA", name1 |-> "rC-eth3", name2 |-> "rA-eth3"] >>

\* Port a node gets on its k-th link end: ports count from 1 on a switch and
\* from 0 on any other node, in link-declaration order.
PortOf(n, k) ==
    Cardinality({j \in 1..(k - 1) : LinkDecls[j].n1 = n \/ LinkDecls[j].n2 = n})
        + (IF n \in Switches THEN 1 ELSE 0)

\* Name of an interface: the one given, else <node>-eth<port>.
IntfName(n, given, k) ==
    IF given # "" THEN given ELSE n \o "-eth" \o ToString(PortOf(n, k))

\* The links the build creates: both ends with node and interface name.
Links ==
    { [n1 |-> LinkDecls[k].n1,
       i1 |-> IntfName(LinkDecls[k].n1, LinkDecls[k].name1, k),
       n2 |-> LinkDecls[k].n2,
       i2 |-> IntfName(LinkDecls[k].n2, LinkDecls[k].name2, k)] : k \in 1..Len(LinkDecls) }

\* Interfaces the build declares on each node.
NodeIntfs ==
    [n \in NetHosts \cup Switches |->
        {l.i1 : l \in {m \in Links : m.n1 = n}} \cup {l.i2 : l \in {m \in Links : m.n2 = n}}]
IntfsOf(n) == NodeIntfs[n]

\* Interfaces that can carry an address (those of hosts and routers).
Intfs == UNION {IntfsOf(n) : n \in NetHosts}
AllIntfs == UNION {IntfsOf(n) : n \in NetHosts \cup Switches}

\* Owner of an interface.
IntfNode == [i \in AllIntfs |-> CHOOSE n \in NetHosts \cup Switches : i \in IntfsOf(n)]
NodeOf(i) == IntfNode[i]

\* The interface at the other end of the link an interface terminates.
IntfPeer ==
    [i \in AllIntfs |->
        LET l == CHOOSE m \in Links : m.i1 = i \/ m.i2 = i
        IN  IF l.i1 = i THEN l.i2 ELSE l.i1]
Peer(i) == IntfPeer[i]

\* Interfaces of hosts and routers that receive a frame sent on i: the other
\* end of the link, or every other port's far end when the peer is a switch.
IntfDomain ==
    [i \in AllIntfs |->
        IF NodeOf(Peer(i)) \in Switches
        THEN {Peer(j) : j \in IntfsOf(NodeOf(Peer(i)))} \ {i}
        ELSE {Peer(i)}]
Domain(i) == IntfDomain[i]

\* A node's default interface: the one on its lowest port (its first link).
NodeDefaultIntf ==
    [n \in NetHosts |->
        LET k == CHOOSE j \in 1..Len(LinkDecls) :
                     /\ LinkDecls[j].n1 = n \/ LinkDecls[j].n2 = n
                     /\ \A m \in 1..(j - 1) : LinkDecls[m].n1 # n /\ LinkDecls[m].n2 # n
        IN  IF LinkDecls[k].n1 = n THEN IntfName(n, LinkDecls[k].name1, k)
            ELSE IntfName(n, LinkDecls[k].name2, k)]
DefaultIntf(n) == NodeDefaultIntf[n]

-----------------------------------------------------------------------------
(* Addresses *)

RECURSIVE Pow2(_)
Pow2(k) == IF k = 0 THEN 1 ELSE 2 * Pow2(k - 1)

\* Dotted quad to number.
IpToInt(o) == ((o[1] * 256 + o[2]) * 256 + o[3]) * 256 + o[4]

\* Number of leading one bits of a mask octet, or -1 if it is no mask octet.
OctetOnes(o) ==
    IF \E k \in 0..8 : o = 256 - Pow2(8 - k)
    THEN CHOOSE k \in 0..8 : o = 256 - Pow2(8 - k)
    ELSE -1

\* Dotted netmask to prefix length; -1 when the ones are not contiguous.
MaskToPrefix(m) ==
    LET n == [k \in 1..4 |-> OctetOnes(m[k])]
    IN  IF /\ \A k \in 1..4 : n[k] >= 0
           /\ \A k \in 1..3 : n[k] < 8 => n[k + 1] = 0
        THEN n[1] + n[2] + n[3] + n[4]
        ELSE -1

\* Network number of an address under a prefix length (1..32).
NetOf(ip, plen) == ip - (ip % Pow2(32 - plen))

\* Whether ip lies in net/plen; prefix 0 is the default route.
InSubnet(ip, net, plen) ==
    plen = 0 \/ (plen \in 1..32 /\ NetOf(ip, plen) = NetOf(net, plen))

NoAddr == [ip |-> 0, plen |-> -1]

-----------------------------------------------------------------------------
(* Shell commands and their effect on a node *)

Zero == <<0, 0, 0, 0>>

\* "ifconfig <intf> <ip>/<plen> up"
Ifconfig(intf, ip, plen) ==
    [kind |-> "ifconfig", intf |-> intf, ip |-> ip, plen |-> plen, mask |-> Zero, gw |-> Zero, val |-> 0]

\* "route add -net <net> netmask <mask> gw <gw>"
RouteNet(net, mask, gw) ==
    [kind |-> "route_net", intf |-> "", ip |-> net, plen |-> -1, mask |-> mask, gw |-> gw, val |-> 0]

\* "route add default gw <gw>"
RouteDefault(gw) ==
    [kind |-> "route_default", intf |-> "", ip |-> Zero, plen |-> 0, mask |-> Zero, gw |-> gw, val |-> 0]

\* "sysctl -w net.ipv4.ip_forward=<v>"
Sysctl(v) ==
    [kind |-> "sysctl", intf |-> "", ip |-> Zero, plen |-> -1, mask |-> Zero, gw |-> Zero, val |-> v]

\* "ifconfig lo up", issued by the parent Node.config
LoUp ==
    [kind |-> "lo_up", intf |-> "lo", ip |-> Zero, plen |-> -1, mask |-> Zero, gw |-> Zero, val |-> 0]

\* Mark left in a node's log when the parent Node.terminate ends the node.
Exit ==
    [kind |-> "exit", intf |-> "", ip |-> Zero, plen |-> -1, mask |-> Zero, gw |-> Zero, val |-> 0]

\* The state the operations work on, as one record; exc is set once a call raised.
Cur ==
    [addr |-> addr, routes |-> routes, fwd |-> fwd, shell |-> shell, log |-> log,
     exc |-> FALSE]

\* Addressed interfaces of node n whose subnet contains ip.
ConnectedVia(s, n, ip) ==
    {i \in IntfsOf(n) : s.addr[i].plen # -1 /\ InSubnet(ip, s.addr[i].ip, s.addr[i].plen)}

\* The most specific of a set of interfaces.
BestIntf(s, I) == CHOOSE i \in I : \A j \in I : s.addr[j].plen <= s.addr[i].plen

\* Kernel route insertion: the gateway must be on a connected subnet and not
\* an address of the node itself, and the destination must be a network
\* number not yet in the table.
AddRoute(s, n, net, plen, gw) ==
    IF /\ plen \in 0..32
       /\ plen = 0 \/ NetOf(net, plen) = net
       /\ ConnectedVia(s, n, gw) # {}
       /\ \A i \in IntfsOf(n) : s.addr[i].plen = -1 \/ s.addr[i].ip # gw
       /\ \A r \in s.routes[n] : ~(r.net = net /\ r.plen = plen)
    THEN [s EXCEPT !.routes[n] = @ \cup
            {[net |-> net, plen |-> plen, gw |-> gw,
              dev |-> BestIntf(s, ConnectedVia(s, n, gw))]}]
    ELSE s

\* Node.cmd: run one command on node n.  It raises when the node's shell is
\* gone; a command the kernel rejects changes nothing.
Exec(s, n, c) ==
    IF s.exc THEN s
    ELSE IF ~s.shell[n] THEN [s EXCEPT !.exc = TRUE]
    ELSE LET t == [s EXCEPT !.log[n] = Append(@, c)]
         IN  CASE c.kind = "ifconfig" ->
                    IF c.intf \in IntfsOf(n) /\ c.plen \in 1..32
                    THEN [t EXCEPT !.addr[c.intf] = [ip |-> IpToInt(c.ip), plen |-> c.plen],
                                   !.routes[n] = {r \in @ : r.dev # c.intf}]
                    ELSE t
               [] c.kind = "route_net" ->
                    AddRoute(t, n, IpToInt(c.ip), MaskToPrefix(c.mask), IpToInt(c.gw))
               [] c.kind = "route_default" ->
                    AddRoute(t, n, 0, 0, IpToInt(c.gw))
               [] c.kind = "sysctl" ->
                    IF n \in Routers THEN [t EXCEPT !.fwd[n] = c.val] ELSE t
               [] OTHER -> t

\* Parent Node.config: apply the ip= parameter of the topology, if any, to the
\* default interface, then bring up the loopback.  The address Mininet gives
\* by default to a node declared without ip= (the routers) is replaced by
\* lines 170, 175 and 180 and is left out.
NodeConfig(s, n) ==
    IF n \in Hosts
    THEN Exec(Exec(s, n, Ifconfig(DefaultIntf(n), HostIp(n).ip, HostIp(n).plen)), n, LoUp)
    ELSE Exec(s, n, LoUp)

\* Parent Node.terminate: the shell process is killed and forgotten.
NodeTerminate(s, n) ==
    IF s.exc THEN s
    ELSE [s EXCEPT !.shell[n] = FALSE, !.log[n] = Append(@, Exit)]

\* Faulty variant of Router.config: forwarding is never enabled.
RouterConfig_NoForward(s, r) == NodeConfig(s, r)

\* Router.config: the parent's config, then IP forwarding on.
RouterConfig(s, r) == Exec(NodeConfig(s, r), r, Sysctl(1))

\* Faulty variant of Router.terminate: the parent's terminate is not called.
RouterTerminate_NoSuper(s, r) == Exec(s, r, Sysctl(0))

\* Router.terminate: IP forwarding off, then the parent's terminate.
RouterTerminate(s, r) == NodeTerminate(Exec(s, r, Sysctl(0)), r)

\* config / terminate as dispatched on the node's class.
ConfigOne(s, n)    == IF n \in Routers THEN RouterConfig(s, n) ELSE NodeConfig(s, n)
TerminateOne(s, n) == IF n \in Routers THEN RouterTerminate(s, n) ELSE NodeTerminate(s, n)

\* Store a computed state.
Set(s) ==
    /\ addr' = s.addr
    /\ routes' = s.routes
    /\ fwd' = s.fwd
    /\ shell' = s.shell
    /\ log' = s.log

-----------------------------------------------------------------------------
(* run() *)

\* Faulty variant of the interface commands: rB's LAN interface with a /24.
IfconfigCmds_WidePrefix ==
    << [node |-> "rA", cmd |-> Ifconfig("rA-eth1", <<20, 10, 172, 129>>, 26)],
       [node |-> "rA", cmd |-> Ifconfig("rA-eth2", <<10, 0, 10, 1>>, 30)],
       [node |-> "rA", cmd |-> Ifconfig("rA-eth3", <<10, 0, 30, 2>>, 30)],
       [node |-> "rB", cmd |-> Ifconfig("rB-eth1", <<20, 10, 172, 1>>, 24)],
       [node |-> "rB", cmd |-> Ifconfig("rB-eth2", <<10, 0, 10, 2>>, 30)],
       [node |-> "rB", cmd |-> Ifconfig("rB-eth3", <<10, 0, 20, 1>>, 30)],
       [node |-> "rC", cmd |-> Ifconfig("rC-eth1", <<20, 10, 172, 193>>, 27)],
       [node |-> "rC", cmd |-> Ifconfig("rC-eth2", <<10, 0, 20, 2>>, 30)],
       [node |-> "rC", cmd |-> Ifconfig("rC-eth3", <<10, 0, 30, 1>>, 30)] >>

\* Faulty variant of the interface commands: rC's end of the rC-rA link given
\* rA's address.
IfconfigCmds_SameEnd ==
    << [node |-> "rA", cmd |-> Ifconfig("rA-eth1", <<20, 10, 172, 129>>, 26)],
       [node |-> "rA", cmd |-> Ifconfig("rA-eth2", <<10, 0, 10, 1>>, 30)],
       [node |-> "rA", cmd |-> Ifconfig("rA-eth3", <<10, 0, 30, 2>>, 30)],
       [node |-> "rB", cmd |-> Ifconfig("rB-eth1", <<20, 10, 172, 1>>, 25)],
       [node |-> "rB", cmd |-> Ifconfig("rB-eth2", <<10, 0, 10, 2>>, 30)],
       [node |-> "rB", cmd |-> Ifconfig("rB-eth3", <<10, 0, 20, 1>>, 30)],
       [node |-> "rC", cmd |-> Ifconfig("rC-eth1", <<20, 10, 172, 193>>, 27)],
       [node |-> "rC", cmd |-> Ifconfig("rC-eth2", <<10, 0, 20, 2>>, 30)],
       [node |-> "rC", cmd |-> Ifconfig("rC-eth3", <<10, 0, 30, 2>>, 30)] >>

\* Lines 170-182: the interface commands, in program order.
IfconfigCmds ==
    << [node |-> "rA", cmd |-> Ifconfig("rA-eth1", <<20, 10, 172, 129>>, 26)],
       [node |-> "rA", cmd |-> Ifconfig("rA-eth2", <<10, 0, 10, 1>>, 30)],
       [node |-> "rA", cmd |-> Ifconfig("rA-eth3", <<10, 0, 30, 2>>, 30)],
       [node |-> "rB", cmd |-> Ifconfig("rB-eth1", <<20, 10, 172, 1>>, 25)],
       [node |-> "rB", cmd |-> Ifconfig("rB-eth2", <<10, 0, 10, 2>>, 30)],
       [node |-> "rB", cmd |-> Ifconfig("rB-eth3", <<10, 0, 20, 1>>, 30)],
       [node |-> "rC", cmd |-> Ifconfig("rC-eth1", <<20, 10, 172, 193>>, 27)],
       [node |-> "rC", cmd |-> Ifconfig("rC-eth2", <<10, 0, 20, 2>>, 30)],
       [node |-> "rC", cmd |-> Ifconfig("rC-eth3", <<10, 0, 30, 1>>, 30)] >>

\* Faulty variant of the static routes: rC's second route repeats LAN A.
RouteCmds_DupDest ==
    << [node |-> "rA", cmd |-> RouteNet(<<20, 10, 172, 0>>,   <<255, 255, 255, 128>>, <<10, 0, 10, 2>>)],
       [node |-> "rA", cmd |-> RouteNet(<<20, 10, 172, 192>>, <<255, 255, 255, 224>>, <<10, 0, 30, 1>>)],
       [node |-> "rB", cmd |-> RouteNet(<<20, 10, 172, 128>>, <<255, 255, 255, 192>>, <<10, 0, 10, 1>>)],
       [node |-> "rB", cmd |-> RouteNet(<<20, 10, 172, 192>>, <<255, 255, 255, 224>>, <<10, 0, 20, 2>>)],
       [node |-> "rC", cmd |-> RouteNet(<<20, 10, 172, 128>>, <<255, 255, 255, 192>>, <<10, 0, 30, 2>>)],
       [node |-> "rC", cmd |-> RouteNet(<<20, 10, 172, 128>>, <<255, 255, 255, 192>>, <<10, 0, 20, 1>>)] >>

\* Faulty variant of the static routes: rA reaches LAN C through rB.
RouteCmds_Detour ==
    << [node |-> "rA", cmd |-> RouteNet(<<20, 10, 172, 0>>,   <<255, 255, 255, 128>>, <<10, 0, 10, 2>>)],
       [node |-> "rA", cmd |-> RouteNet(<<20, 10, 172, 192>>, <<255, 255, 255, 224>>, <<10, 0, 10, 2>>)],
       [node |-> "rB", cmd |-> RouteNet(<<20, 10, 172, 128>>, <<255, 255, 255, 192>>, <<10, 0, 10, 1>>)],
       [node |-> "rB", cmd |-> RouteNet(<<20, 10, 172, 192>>, <<255, 255, 255, 224>>, <<10, 0, 20, 2>>)],
       [node |-> "rC", cmd |-> RouteNet(<<20, 10, 172, 128>>, <<255, 255, 255, 192>>, <<10, 0, 30, 2>>)],
       [node |-> "rC", cmd |-> RouteNet(<<20, 10, 172, 0>>,   <<255, 255, 255, 128>>, <<10, 0, 20, 1>>)] >>

\* Lines 186-195: the static routes, in program order.
RouteCmds ==
    << [node |-> "rA", cmd |-> RouteNet(<<20, 10, 172, 0>>,   <<255, 255, 255, 128>>, <<10, 0, 10, 2>>)],
       [node |-> "rA", cmd |-> RouteNet(<<20, 10, 172, 192>>, <<255, 255, 255, 224>>, <<10, 0, 30, 1>>)],
       [node |-> "rB", cmd |-> RouteNet(<<20, 10, 172, 128>>, <<255, 255, 255, 192>>, <<10, 0, 10, 1>>)],
       [node |-> "rB", cmd |-> RouteNet(<<20, 10, 172, 192>>, <<255, 255, 255, 224>>, <<10, 0, 20, 2>>)],
       [node |-> "rC", cmd |-> RouteNet(<<20, 10, 172, 128>>, <<255, 255, 255, 192>>, <<10, 0, 30, 2>>)],
       [node |-> "rC", cmd |-> RouteNet(<<20, 10, 172, 0>>,   <<255, 255, 255, 128>>, <<10, 0, 20, 1>>)] >>

\* Faulty variant of the command order: the routes before the interfaces.
RunCmds_RoutesFirst == RouteCmds \o IfconfigCmds

\* Lines 170-195 as run() issues them.
RunCmds == IfconfigCmds \o RouteCmds

\* str.startswith
StartsWith(name, prefix) ==
    /\ Len(Chars(name)) >= Len(prefix)
    /\ SubSeq(Chars(name), 1, Len(prefix)) = prefix

\* Faulty variant of the name test: only the LAN letter is looked at.
DefaultGw_LetterOnly(name) ==
    IF Chars(name)[2] = "A" THEN <<20, 10, 172, 129>>
    ELSE IF Chars(name)[2] = "B" THEN <<20, 10, 172, 1>>
    ELSE IF Chars(name)[2] = "C" THEN <<20, 10, 172, 193>>
    ELSE <<>>

\* Lines 201-206: the gateway the loop picks for a node name; <<>> for none.
DefaultGw(name) ==
    IF StartsWith(name, <<"h", "A">>) THEN <<20, 10, 172, 129>>
    ELSE IF StartsWith(name, <<"h", "B">>) THEN <<20, 10, 172, 1>>
    ELSE IF StartsWith(name, <<"h", "C">>) THEN <<20, 10, 172, 193>>
    ELSE <<>>

NoPkt ==
    [src |-> "", dst |-> "", at |-> "", path |-> <<>>, kind |-> "none", status |-> "none"]

NoCall == [op |-> "none", node |-> "", raised |-> FALSE]

\* Before run(): no node exists yet.
Init ==
    /\ pc = "new"
    /\ ci = 1
    /\ todo = {}
    /\ addr = [i \in Intfs |-> NoAddr]
    /\ routes = [n \in NetHosts |-> {}]
    /\ fwd = [r \in Routers |-> 0]
    /\ shell = [n \in NetHosts |-> FALSE]
    /\ log = [n \in NetHosts |-> <<>>]
    /\ pkt = NoPkt
    /\ last = NoCall
    /\ calls = 0

\* Lines 156-161: Mininet(topo=...) creates every node of the topology, each
\* with its shell, and goes on to configure the members of net.hosts.
Build ==
    /\ pc = "new"
    /\ shell' = [n \in NetHosts |-> TRUE]
    /\ todo' = NetHosts
    /\ pc' = "config"
    /\ UNCHANGED <<ci, addr, routes, fwd, log, pkt, last, calls>>

\* Lines 156-161, continued: config is called on one more member of net.hosts
\* (Router.config on a router); after the last one the network is built.
ConfigStep ==
    /\ pc = "config"
    /\ \E n \in todo :
         LET s == ConfigOne(Cur, n)
         IN  /\ Set(s)
             /\ todo' = todo \ {n}
             /\ pc' = IF s.exc THEN "aborted"
                      ELSE IF todo = {n} THEN "built" ELSE "config"
    /\ UNCHANGED <<ci, pkt, last, calls>>

\* Line 163: net.start() starts the switches.
Start ==
    /\ pc = "built"
    /\ pc' = "configure"
    /\ UNCHANGED <<ci, todo, addr, routes, fwd, shell, log, pkt, last, calls>>

\* Lines 170-195: the next command of the list; after the last one the loop
\* over net.hosts begins (line 198).
RunCmd ==
    /\ pc = "configure"
    /\ ci \in 1..Len(RunCmds)
    /\ LET s == Exec(Cur, RunCmds[ci].node, RunCmds[ci].cmd)
       IN  /\ Set(s)
           /\ pc' = IF s.exc THEN "aborted"
                    ELSE IF ci = Len(RunCmds) THEN "hosts" ELSE "configure"
    /\ ci' = ci + 1
    /\ todo' = IF ci = Len(RunCmds) THEN NetHosts ELSE todo
    /\ UNCHANGED <<pkt, last, calls>>

\* Lines 199-206: one iteration of the loop, on any member of net.hosts not
\* yet visited; after the last one the CLI starts (line 213).
HostStep ==
    /\ pc = "hosts"
    /\ \E n \in todo :
         LET s == IF DefaultGw(n) # <<>> THEN Exec(Cur, n, RouteDefault(DefaultGw(n)))
                  ELSE Cur
         IN  /\ Set(s)
             /\ todo' = todo \ {n}
             /\ pc' = IF s.exc THEN "aborted"
                      ELSE IF todo = {n} THEN "cli" ELSE "hosts"
    /\ UNCHANGED <<ci, pkt, last, calls>>

\* Line 213 returns: the user leaves the CLI (no command is running), and
\* net.stop() goes on to terminate the members of net.hosts.
ExitCLI ==
    /\ pc = "cli"
    /\ pkt = NoPkt
    /\ pc' = "stopping"
    /\ todo' = NetHosts
    /\ UNCHANGED <<ci, addr, routes, fwd, shell, log, pkt, last, calls>>

\* Line 216: net.stop() terminates one more member of net.hosts
\* (Router.terminate on a router); after the last one run() returns.
StopStep ==
    /\ pc = "stopping"
    /\ \E n \in todo :
         LET s == TerminateOne(Cur, n)
         IN  /\ Set(s)
             /\ todo' = todo \ {n}
             /\ pc' = IF s.exc THEN "aborted"
                      ELSE IF todo = {n} THEN "done" ELSE "stopping"
    /\ UNCHANGED <<ci, pkt, last, calls>>

\* Lines 163-213 stand in no try/finally: an exception raised by a command
\* or by the CLI leaves run() at once, and line 216 is not reached.
Raise ==
    /\ pc \in {"configure", "hosts", "cli"}
    /\ pc' = "aborted"
    /\ UNCHANGED <<ci, todo, addr, routes, fwd, shell, log, pkt, last, calls>>

-----------------------------------------------------------------------------
(* Packets in the configured network (ping from the CLI) *)

MaxHops == 4

\* The switch a host's interface is plugged into: its segment.
SegmentOf(h) == NodeOf(Peer(DefaultIntf(h)))

\* The router that has an interface on a host's segment.
RouterOf(h) == CHOOSE r \in Routers : \E i \in IntfsOf(r) : i \in Domain(DefaultIntf(h))

\* The table a node looks a destination up in: its connected subnets and its
\* installed routes.
Table(n) ==
    {[net |-> addr[i].ip, plen |-> addr[i].plen, gw |-> 0, dev |-> i, direct |-> TRUE] :
        i \in {j \in IntfsOf(n) : addr[j].plen # -1}}
    \cup
    {[net |-> r.net, plen |-> r.plen, gw |-> r.gw, dev |-> r.dev, direct |-> FALSE] :
        r \in routes[n]}

\* Entries that match ip.
Matches(n, ip) == {e \in Table(n) : InSubnet(ip, e.net, e.plen)}

\* Longest-prefix match; connected subnets win a tie.
Lookup(n, ip) ==
    CHOOSE e \in Matches(n, ip) :
        \A f \in Matches(n, ip) :
            f.plen < e.plen \/ (f.plen = e.plen /\ (e.direct \/ ~f.direct))

\* Interfaces on the wire of dev that own address ip.
Owners(dev, ip) == {j \in Domain(dev) \cap Intfs : addr[j].plen # -1 /\ addr[j].ip = ip}

\* Whether node n owns address ip.
IsLocal(n, ip) == \E i \in IntfsOf(n) : addr[i].plen # -1 /\ addr[i].ip = ip

\* The packet after the node holding it has handled it once.
Hop(p) ==
    LET dip == IpToInt(HostIp(p.dst).ip)
    IN  IF Len(p.path) >= MaxHops \/ Matches(p.at, dip) = {}
        THEN [p EXCEPT !.status = "dropped"]
        ELSE LET e  == Lookup(p.at, dip)
                 nh == IF e.direct THEN dip ELSE e.gw
             IN  IF Owners(e.dev, nh) = {}
                 THEN [p EXCEPT !.status = "dropped"]
                 ELSE LET m == NodeOf(CHOOSE j \in Owners(e.dev, nh) : TRUE)
                      IN  IF IsLocal(m, dip)
                          THEN [p EXCEPT !.at = m, !.status = "delivered"]
                          ELSE IF m \in Routers /\ fwd[m] = 1
                          THEN [p EXCEPT !.at = m, !.path = Append(@, m)]
                          ELSE [p EXCEPT !.at = m, !.status = "dropped"]

\* A CLI command sends a packet from one host to the address of a host on
\* another segment.
Send ==
    /\ pc = "cli"
    /\ pkt = NoPkt
    /\ \E src \in Hosts, dst \in Hosts :
         /\ SegmentOf(src) # SegmentOf(dst)
         /\ pkt' = [src |-> src, dst |-> dst, at |-> src, path |-> <<>>,
                    kind |-> "request", status |-> "flight"]
    /\ UNCHANGED <<pc, ci, todo, addr, routes, fwd, shell, log, last, calls>>

\* The node holding the packet hands it on.
Forward ==
    /\ pkt.status = "flight"
    /\ pkt' = Hop(pkt)
    /\ UNCHANGED <<pc, ci, todo, addr, routes, fwd, shell, log, last, calls>>

\* The destination answers a delivered request.
Reply ==
    /\ pkt.status = "delivered"
    /\ pkt.kind = "request"
    /\ pkt' = [src |-> pkt.dst, dst |-> pkt.src, at |-> pkt.dst, path |-> <<>>,
               kind |-> "reply", status |-> "flight"]
    /\ UNCHANGED <<pc, ci, todo, addr, routes, fwd, shell, log, last, calls>>

\* The command ends: the reply arrived or the packet was lost.
Complete ==
    /\ pc = "cli"
    /\ \/ pkt.status = "delivered" /\ pkt.kind = "reply"
       \/ pkt.status = "dropped"
    /\ pkt' = NoPkt
    /\ UNCHANGED <<pc, ci, todo, addr, routes, fwd, shell, log, last, calls>>

Next ==
    \/ Build
    \/ ConfigStep
    \/ Start
    \/ RunCmd
    \/ HostStep
    \/ Send
    \/ Forward
    \/ Reply
    \/ Complete
    \/ ExitCLI
    \/ StopStep
    \/ Raise

Spec == Init /\ [][Next]_vars

\* The kernels keep forwarding and answering whatever the script does.
FairSpec == Spec /\ WF_vars(Forward) /\ WF_vars(Reply)

-----------------------------------------------------------------------------
(* The Router class on its own: config and terminate called in any order *)

MaxCalls == 4

\* Three Router objects, created (their shells run) and not yet configured.
InitLife ==
    /\ pc = "harness"
    /\ ci = 1
    /\ todo = {}
    /\ addr = [i \in Intfs |-> NoAddr]
    /\ routes = [n \in NetHosts |-> {}]
    /\ fwd = [r \in Routers |-> 0]
    /\ shell = [n \in NetHosts |-> n \in Routers]
    /\ log = [n \in NetHosts |-> <<>>]
    /\ pkt = NoPkt
    /\ last = NoCall
    /\ calls = 0

CallConfig ==
    /\ pc = "harness"
    /\ calls < MaxCalls
    /\ \E r \in Routers :
         LET s == RouterConfig(Cur, r)
         IN  /\ Set(s)
             /\ last' = [op |-> "config", node |-> r, raised |-> s.exc]
    /\ calls' = calls + 1
    /\ UNCHANGED <<pc, ci, todo, pkt>>

CallTerminate ==
    /\ pc = "harness"
    /\ calls < MaxCalls
    /\ \E r \in Routers :
         LET s == RouterTerminate(Cur, r)
         IN  /\ Set(s)
             /\ last' = [op |-> "terminate", node |-> r, raised |-> s.exc]
    /\ calls' = calls + 1
    /\ UNCHANGED <<pc, ci, todo, pkt>>

NextLife == CallConfig \/ CallTerminate

LifeSpec == InitLife /\ [][NextLife]_vars

-----------------------------------------------------------------------------
(* Properties *)

\* Every command of lines 170-195 has been issued.
Configured == ci > Len(RunCmds)

\* The static (non-default) and the default routes installed on a node.
StaticRoutes(n)  == {r \in routes[n] : r.plen # 0}
DefaultRoutes(n) == {r \in routes[n] : r.plen = 0}

\* A route as destination, prefix length and gateway.
Rt(net, plen, gw) == <<IpToInt(net), plen, IpToInt(gw)>>
Triples(R) == {<<r.net, r.plen, r.gw>> : r \in R}

\* The LAN interface of a router (the one plugged into a switch) and the
\* subnet it defines.
LanIntf(r) == CHOOSE i \in IntfsOf(r) : NodeOf(Peer(i)) \in Switches
SegNet(r)  == <<NetOf(addr[LanIntf(r)].ip, addr[LanIntf(r)].plen), addr[LanIntf(r)].plen>>

\* The addresses a router's interfaces carry.
AddrsOf(n) == {addr[i].ip : i \in {j \in IntfsOf(n) : addr[j].plen # -1}}

\* C1: in the reference triangle the routers hold exactly six static routes,
\* two per router, one per non-local segment and none twice: rA to B via
\* 10.0.10.2 (rB) and to C via 10.0.30.1 (rC), rB to A via 10.0.10.1 (rA) and
\* to C via 10.0.20.2 (rC), rC to A via 10.0.30.2 (rA) and to B via 10.0.20.1 (rB).
C1_SixStaticRoutes ==
    Configured =>
        /\ SegNet("rA") = <<IpToInt(<<20, 10, 172, 128>>), 26>>
        /\ SegNet("rB") = <<IpToInt(<<20, 10, 172, 0>>), 25>>
        /\ SegNet("rC") = <<IpToInt(<<20, 10, 172, 192>>), 27>>
        /\ Triples(StaticRoutes("rA")) =
              { Rt(<<20, 10, 172, 0>>, 25, <<10, 0, 10, 2>>),
                Rt(<<20, 10, 172, 192>>, 27, <<10, 0, 30, 1>>) }
        /\ Triples(StaticRoutes("rB")) =
              { Rt(<<20, 10, 172, 128>>, 26, <<10, 0, 10, 1>>),
                Rt(<<20, 10, 172, 192>>, 27, <<10, 0, 20, 2>>) }
        /\ Triples(StaticRoutes("rC")) =
              { Rt(<<20, 10, 172, 128>>, 26, <<10, 0, 30, 2>>),
                Rt(<<20, 10, 172, 0>>, 25, <<10, 0, 20, 1>>) }
        /\ IpToInt(<<10, 0, 10, 2>>) \in AddrsOf("rB") /\ IpToInt(<<10, 0, 20, 1>>) \in AddrsOf("rB")
        /\ IpToInt(<<10, 0, 30, 1>>) \in AddrsOf("rC") /\ IpToInt(<<10, 0, 20, 2>>) \in AddrsOf("rC")
        /\ IpToInt(<<10, 0, 10, 1>>) \in AddrsOf("rA") /\ IpToInt(<<10, 0, 30, 2>>) \in AddrsOf("rA")
        /\ \A r \in Routers :
             /\ Cardinality(StaticRoutes(r)) = 2
             /\ {<<x.net, x.plen>> : x \in StaticRoutes(r)} = {SegNet(q) : q \in Routers \ {r}}
             /\ Len(SelectSeq(log[r], LAMBDA c : c.kind = "route_net")) = 2
        /\ \A h \in Hosts : StaticRoutes(h) = {}

C1_Witness == Configured /\ pc = "hosts" /\ StaticRoutes("rC") # {}

\* C2: once the loop over net.hosts is over, every host has exactly one
\* default route, through the address of the one router interface on its own
\* segment (20.10.172.129, 20.10.172.1, 20.10.172.193), whatever the order of
\* the loop; the routers get none, so six default routes exist.
C2_HostDefaultRoutes ==
    (pc \in {"cli", "stopping"}) =>
        /\ \A h \in Hosts :
             /\ Cardinality(DefaultRoutes(h)) = 1
             /\ Len(SelectSeq(log[h], LAMBDA c : c.kind = "route_default")) = 1
             /\ \A d \in DefaultRoutes(h) :
                  /\ d.gw = addr[LanIntf(RouterOf(h))].ip
                  /\ {i \in Domain(DefaultIntf(h)) : NodeOf(i) \in Routers} = {LanIntf(RouterOf(h))}
                  /\ d.gw = IpToInt(CASE RouterOf(h) = "rA" -> <<20, 10, 172, 129>>
                                      [] RouterOf(h) = "rB" -> <<20, 10, 172, 1>>
                                      [] RouterOf(h) = "rC" -> <<20, 10, 172, 193>>)
        /\ \A r \in Routers :
             /\ DefaultRoutes(r) = {}
             /\ SelectSeq(log[r], LAMBDA c : c.kind = "route_default") = <<>>
        /\ Cardinality(UNION {{<<n, d>> : d \in DefaultRoutes(n)} : n \in NetHosts}) = 6

C2_Witness == pc = "cli" /\ todo = {} /\ DefaultRoutes("hC2") # {}

\* Subnets of two addressed interfaces.
SameSubnet(i, j) ==
    /\ addr[i].plen = addr[j].plen
    /\ NetOf(addr[i].ip, addr[i].plen) = NetOf(addr[j].ip, addr[j].plen)
Overlap(i, j) ==
    \/ InSubnet(addr[i].ip, addr[j].ip, addr[j].plen)
    \/ InSubnet(addr[j].ip, addr[i].ip, addr[i].plen)
AllAddressed == \A i \in Intfs : addr[i].plen # -1

\* C3 as stated: any two distinct addressed interfaces have disjoint subnets,
\* or the same subnet and are the two ends of one link.
C3_NoOverlapOriginal ==
    AllAddressed =>
        \A i \in Intfs : \A j \in Intfs \ {i} :
            ~Overlap(i, j) \/ (SameSubnet(i, j) /\ Peer(i) = j)

\* C3 amended: any two distinct addressed interfaces have disjoint subnets, or
\* the same subnet and are the two ends of one link or two interfaces attached
\* to the same LAN segment (switch).
C3_NoOverlap ==
    AllAddressed =>
        \A i \in Intfs : \A j \in Intfs \ {i} :
            ~Overlap(i, j) \/ (SameSubnet(i, j) /\ j \in Domain(i))

C3_Witness ==
    /\ AllAddressed
    /\ Cardinality(Intfs) = 15
    /\ SameSubnet("rA-eth2", "rB-eth2")
    /\ SameSubnet("hA1-eth0", "hA2-eth0")

\* Positions of a node's log that hold a command of the given kind.
At(n, kind) == {k \in 1..Len(log[n]) : log[n][k].kind = kind}
FwdOnAt(n)  == {k \in At(n, "sysctl") : log[n][k].val = 1}
FwdOffAt(n) == {k \in At(n, "sysctl") : log[n][k].val = 0}

C5_DisabledOnEveryExit ==
    (pc \in {"done", "aborted"}) =>
        \A r \in Routers :
            FwdOnAt(r) # {} =>
                /\ fwd[r] = 0
                /\ \E f \in FwdOffAt(r) : \A x \in At(r, "exit") : f < x

\* C6: terminate on a router whose config never ran raises, emits no
\* disable-forwarding command and leaves the router as it was.
C6_StopUnconfiguredFails ==
    \A r \in Routers :
        (last.op = "terminate" /\ last.node = r /\ FwdOnAt(r) = {}) =>
            /\ last.raised
            /\ FwdOffAt(r) = {}
            /\ shell[r]

\* C7: the forwarding flag is off until the first config, is turned on only
\* by a config call on that router, is turned off only by a terminate call on
\* that router, and once a terminate has turned it off it stays off.
C7_FlagLifecycle ==
    [][\A r \in Routers :
         /\ FwdOnAt(r) = {} => fwd[r] = 0
         /\ (fwd[r] = 0 /\ fwd'[r] = 1) =>
               last'.op = "config" /\ last'.node = r /\ ~last'.raised
         /\ (fwd[r] = 1 /\ fwd'[r] = 0) =>
               last'.op = "terminate" /\ last'.node = r /\ ~last'.raised
         /\ FwdOffAt(r) # {} => fwd[r] = 0 /\ fwd'[r] = 0]_vars

C7_Witness ==
    \E r \in Routers :
        /\ FwdOnAt(r) # {}
        /\ FwdOffAt(r) # {}
        /\ last.op = "config" /\ last.node = r /\ last.raised
        /\ fwd[r] = 0

\* The inter-router links and a router's end of one.
P2P == {l \in Links : l.n1 \in Routers /\ l.n2 \in Routers}
EndOf(l, r)   == IF l.n1 = r THEN l.i1 ELSE l.i2
OtherEnd(l, r) == IF l.n1 = r THEN l.i2 ELSE l.i1
OtherNode(l, r) == IF l.n1 = r THEN l.n2 ELSE l.n1

\* C8: the gateway of every static route of a router R is the address of the
\* next-hop router's interface on the link joining it to R (the next hop being
\* the router of the destination segment), it lies in the subnet of exactly
\* one interface of R, R's end of that link, and the two ends of every
\* inter-router link have distinct addresses in one /30.
C8_GatewayOnSharedLink ==
    Configured =>
        /\ \A r \in Routers : \A x \in StaticRoutes(r) :
             \E l \in {m \in P2P : m.n1 = r \/ m.n2 = r} :
                 /\ x.gw = addr[OtherEnd(l, r)].ip
                 /\ <<x.net, x.plen>> = SegNet(OtherNode(l, r))
                 /\ ConnectedVia(Cur, r, x.gw) = {EndOf(l, r)}
                 /\ x.dev = EndOf(l, r)
        /\ \A l \in P2P :
             /\ addr[l.i1].plen = 30 /\ addr[l.i2].plen = 30
             /\ addr[l.i1].ip # addr[l.i2].ip
             /\ NetOf(addr[l.i1].ip, 30) = NetOf(addr[l.i2].ip, 30)
        /\ \A r \in Routers : StaticRoutes(r) # {}

C8_Witness ==
    /\ Configured
    /\ \E x \in StaticRoutes("rB") : x.dev = "rB-eth3" /\ x.gw = addr["rC-eth2"].ip

\* C9: on every node a route is installed only after the node's interfaces
\* have their addresses: a router's route-adds follow all of its ifconfig
\* commands, which cover all its interfaces and the one facing the gateway;
\* a host's default route follows the address of its interface; and every
\* ifconfig names an interface the build declared on that node.
C9_RoutesAfterInterfaces ==
    /\ \A r \in Routers : \A k \in At(r, "route_net") :
         /\ \A i \in At(r, "ifconfig") : i < k
         /\ {log[r][i].intf : i \in {j \in At(r, "ifconfig") : j < k}} = IntfsOf(r)
         /\ \E i \in At(r, "ifconfig") :
              /\ i < k
              /\ InSubnet(IpToInt(log[r][k].gw), IpToInt(log[r][i].ip), log[r][i].plen)
    /\ \A h \in Hosts : \A k \in At(h, "route_default") :
         \E i \in At(h, "ifconfig") :
              /\ i < k
              /\ log[h][i].intf = DefaultIntf(h)
              /\ IntfsOf(h) = {DefaultIntf(h)}
    /\ \A n \in NetHosts : \A i \in At(n, "ifconfig") : log[n][i].intf \in IntfsOf(n)
    /\ (pc = "cli") => \A n \in NetHosts :
                          At(n, IF n \in Routers THEN "route_net" ELSE "route_default") # {}

C9_Witness ==
    /\ pc = "cli"
    /\ At("rA", "route_net") # {}
    /\ At("hB1", "route_default") # {}

\* Elements of a sequence are pairwise different.
NoRepeat(q) == \A i \in 1..Len(q) : \A j \in 1..Len(q) : q[i] = q[j] => i = j

\* What holds of a packet at every moment of its way.
PacketOnShortestPath ==
    pkt.kind # "none" =>
        /\ pkt.status # "dropped"
        /\ NoRepeat(pkt.path)
        /\ Len(pkt.path) <= 2
        /\ pkt.status = "delivered" =>
             /\ pkt.at = pkt.dst
             /\ SegmentOf(pkt.at) = SegmentOf(pkt.dst)
             /\ pkt.path = <<RouterOf(pkt.src), RouterOf(pkt.dst)>>

\* C10: a packet from any host to a host of another segment is eventually
\* delivered, visits no router twice and passes exactly two routers, the
\* source segment's and the destination segment's; so does the reply.
C10_Delivery ==
    /\ []PacketOnShortestPath
    /\ (pkt.status = "flight" /\ pkt.kind = "request")
          ~> (pkt.status = "delivered" /\ pkt.kind = "request")
    /\ (pkt.status = "flight" /\ pkt.kind = "request")
          ~> (pkt.status = "delivered" /\ pkt.kind = "reply")

C10_Witness ==
    /\ pkt.kind = "reply"
    /\ pkt.status = "delivered"
    /\ pkt.src = "hC2" /\ pkt.dst = "hA1"
    /\ pkt.path = <<"rC", "rA">>

====
